---- MODULE Spec2Model ----
(***************************************************************************)
(* Log-type classifier (detect_log_type) and prompt selector               *)
(* (get_analysis_prompt) of src/utils.py.                                  *)
(*                                                                         *)
(* Texts are TLA+ strings; Python's str operations (lower, strip, `in`,    *)
(* re.search, re.findall) are modelled character by character.  The        *)
(* classifier runs as a sequence of steps, one per statement that touches  *)
(* a score, so that intermediate scores are visible states.                *)
(***************************************************************************)
EXTENDS Integers, Sequences, FiniteSets, TLC

VARIABLES
    pc,             \* position of the running call, "idle" between calls
    content,        \* detect_log_type: the argument (a string; "" when None)
    content_none,   \* detect_log_type: TRUE when the argument is None
    content_lower,  \* detect_log_type: local content_lower
    idx,            \* index of the indicator the generator is about to test
    adb_score,      \* detect_log_type: local adb_score
    windows_score,  \* detect_log_type: local windows_score
    score,          \* local score of _calculate_*_patterns
    steps,          \* number of scoring statements executed by this call
    result,         \* value returned by detect_log_type ("" while running)
    call,           \* get_analysis_prompt: arguments and result of this call
    prev,           \* get_analysis_prompt: the call before this one (history; a
                    \* classification in between clears it)
    last,           \* detect_log_type: an earlier classification (history, SpecPure)
    sidebar,        \* jira_utils / setup_sidebar: the last call, its inputs and
                    \* what it returned (SpecSidebar)
    extraction,     \* extract_text_from_file: the last call, its file object
                    \* and its outcome (SpecExtract)
    handler         \* the 'Analyze Log File' handler of main: its position,
                    \* its locals and the temporary files (SpecAnalyze)

\* the variables that the classifier and the prompt selector never touch
otherVars == <<last, sidebar, extraction, handler>>

vars == <<pc, content, content_none, content_lower, idx, adb_score,
          windows_score, score, steps, result, call, prev, last, sidebar,
          extraction, handler>>

(***************************************************************************)
(* Bounds of the model.                                                    *)
(***************************************************************************)
\* A text is the concatenation of at most MaxFrags fragments.
MaxFrags == 2

\* In SpecPure a text is the concatenation of at most MaxPureFrags fragments.
MaxPureFrags == 1

(***************************************************************************)
(* Characters and Python str primitives.                                   *)
(***************************************************************************)
UpperCase == "ABCDEFGHIJKLMNOPQRSTUVWXYZ"
LowerCase == "abcdefghijklmnopqrstuvwxyz"
DigitChars == "0123456789"
SpaceChars == " \t\n\r"

CharAt(s, i) == SubSeq(s, i, i)

\* the set of the characters of the string chars
CharsOf(chars) == { CharAt(chars, i) : i \in 1..Len(chars) }

UpperSet == CharsOf(UpperCase)
LowerSet == CharsOf(LowerCase)
DigitSet == CharsOf(DigitChars)
SpaceSet == CharsOf(SpaceChars)

IsDigit(c) == c \in DigitSet
IsSpace(c) == c \in SpaceSet
IsWordChar(c) == c \in UpperSet \/ c \in LowerSet \/ c \in DigitSet \/ c = "_"

\* the lower-case letter of each upper-case letter
LowerOf ==
    [ c \in UpperSet |->
        CharAt(LowerCase, CHOOSE i \in 1..Len(UpperCase) : CharAt(UpperCase, i) = c) ]

LowerChar(c) == IF c \in UpperSet THEN LowerOf[c] ELSE c

\* str.lower()
RECURSIVE lower(_)
lower(s) ==
    IF s = "" THEN "" ELSE LowerChar(CharAt(s, 1)) \o lower(SubSeq(s, 2, Len(s)))

\* str.strip(): drop leading and trailing whitespace
RECURSIVE lstrip(_)
lstrip(s) ==
    IF s # "" /\ IsSpace(CharAt(s, 1)) THEN lstrip(SubSeq(s, 2, Len(s))) ELSE s

RECURSIVE rstrip(_)
rstrip(s) ==
    IF s # "" /\ IsSpace(CharAt(s, Len(s))) THEN rstrip(SubSeq(s, 1, Len(s) - 1)) ELSE s

strip(s) == rstrip(lstrip(s))

\* Python's `sub in s`
In(sub, s) ==
    \E i \in 1..(Len(s) - Len(sub) + 1) : SubSeq(s, i, i + Len(sub) - 1) = sub

(***************************************************************************)
(* The indicator lists of detect_log_type.                                 *)
(***************************************************************************)
adb_indicators ==
    << "adb:", "logcat", "ActivityManager", "WindowManager",
       "dalvikvm", "AndroidRuntime", "System.err",
       "I/", "D/", "V/", "W/", "E/",
       "ActivityTaskManager", "CoreBackPreview", "WindowManagerShell",
       "PackageManager", "AppsFilter", "ActivityThread",
       "BackupManagerService", "LauncherAppsService",
       "com.android.", "android.intent", "android.app.",
       "PackageSetting", "ComponentInfo", "TransitionRequestInfo" >>

windows_indicators ==
    << "Event ID", "Source:", "Level:", "Task Category:", "Keywords:",
       "Microsoft-Windows", "Application Error", "System Error",
       "Warning", "Information", "Error", "Critical", "Section start", "Exit status",
       "[Exit status: SUCCESS]", "[Exit status: FAILURE]", "Section start:",
       "Windows", "Driver", "Installation", "Registry", "System32", "Program Files",
       "EventLog", "Service", "Process", "Thread", "Module", "Device Manager",
       "Setup", "Install", "Uninstall", "Update", "Patch" >>

(***************************************************************************)
(* The regular expressions of _calculate_android_patterns.                 *)
(***************************************************************************)
\* first index >= i of s that holds no whitespace (Len(s) + 1 if none): \s+ is greedy
RECURSIVE SkipSpaces(_, _)
SkipSpaces(s, i) ==
    IF i <= Len(s) /\ IsSpace(CharAt(s, i)) THEN SkipSpaces(s, i + 1) ELSE i

\* \d{2}:\d{2}:\d{2}\.\d{3} matches at index j
ClockAt(s, j) ==
    /\ j + 11 <= Len(s)
    /\ \A k \in {0, 1, 3, 4, 6, 7, 9, 10, 11} : IsDigit(CharAt(s, j + k))
    /\ CharAt(s, j + 2) = ":"
    /\ CharAt(s, j + 5) = ":"
    /\ CharAt(s, j + 8) = "."

\* android_timestamp_pattern \d{2}-\d{2}\s+\d{2}:\d{2}:\d{2}\.\d{3} matches at index i
TimestampAt(s, i) ==
    /\ i + 5 <= Len(s)
    /\ \A k \in {0, 1, 3, 4} : IsDigit(CharAt(s, i + k))
    /\ CharAt(s, i + 2) = "-"
    /\ IsSpace(CharAt(s, i + 5))
    /\ ClockAt(s, SkipSpaces(s, i + 5))

\* re.search(android_timestamp_pattern, content) is not None
SearchTimestamp(s) == \E i \in 1..Len(s) : TimestampAt(s, i)

LogLevels == CharsOf("VDIWEF")

\* android_log_pattern [VDIWEF]\/\w+ matches at index i
TagAt(s, i) ==
    /\ i + 2 <= Len(s)
    /\ CharAt(s, i) \in LogLevels
    /\ CharAt(s, i + 1) = "/"
    /\ IsWordChar(CharAt(s, i + 2))

\* first index >= i of s that holds no word character: \w+ is greedy
RECURSIVE WordEnd(_, _)
WordEnd(s, i) ==
    IF i <= Len(s) /\ IsWordChar(CharAt(s, i)) THEN WordEnd(s, i + 1) ELSE i

\* len(re.findall(android_log_pattern, s[i:])): the scan goes left to right and
\* resumes behind each match
RECURSIVE FindallTags(_, _)
FindallTags(s, i) ==
    IF i > Len(s) THEN 0
    ELSE IF TagAt(s, i) THEN 1 + FindallTags(s, WordEnd(s, i + 2))
    ELSE FindallTags(s, i + 1)

android_packages == << "com.zebra.", "com.android.", "com.google.android." >>

(***************************************************************************)
(* Weights.                                                                *)
(***************************************************************************)
TimestampBonus == 10
TagWeight == 2
PackageBonus == 8
SectionBonus == 5

(***************************************************************************)
(* The pieces of detect_log_type.                                          *)
(***************************************************************************)
\* variant: the whitespace test is left out
IsBlank_no_strip(none, text) == none \/ text = ""

\* `not content or len(content.strip()) == 0`
IsBlank(none, text) == none \/ text = "" \/ Len(strip(text)) = 0

\* variant: the literal has to start a word, as with \b in front of it
indicator_hit_word_start(indicator, lowered) ==
    \E i \in 1..(Len(lowered) - Len(indicator) + 1) :
        /\ SubSeq(lowered, i, i + Len(indicator) - 1) = lower(indicator)
        /\ i = 1 \/ ~IsWordChar(CharAt(lowered, i - 1))

\* `indicator.lower() in content_lower`
indicator_hit(indicator, lowered) == In(lower(indicator), lowered)

\* variant: re.match in place of re.search, the timestamp must open the text
android_timestamp_score_anchored(text) ==
    IF TimestampAt(text, 1) THEN TimestampBonus ELSE 0

\* `if re.search(android_timestamp_pattern, content): score += 10`
android_timestamp_score(text) == IF SearchTimestamp(text) THEN TimestampBonus ELSE 0

\* variant: the tag bonus is given once, however many tags match
android_log_score_once(text) == IF FindallTags(text, 1) > 0 THEN TagWeight ELSE 0

\* `score += len(re.findall(android_log_pattern, content)) * 2`
android_log_score(text) == FindallTags(text, 1) * TagWeight

\* `if any(pkg in content_lower for pkg in [...]): score += 8`, content_lower
\* being the function's own content.lower()
android_package_score(text) ==
    IF \E k \in 1..Len(android_packages) : In(android_packages[k], lower(text))
    THEN PackageBonus ELSE 0

\* variant: `or` in place of `and`
windows_pattern_score_either(lowered) ==
    IF In("section start", lowered) \/ In("exit status", lowered)
    THEN SectionBonus ELSE 0

\* _calculate_windows_patterns(content_lower)
windows_pattern_score(lowered) ==
    IF In("section start", lowered) /\ In("exit status", lowered)
    THEN SectionBonus ELSE 0

\* variant: the scores are module-level counters that `+=` the new count
fresh_score_keeps(left_over) == left_over

\* `adb_score = sum(...)`: a score is bound anew by each call, whatever value
\* an earlier call left behind
fresh_score(left_over) == 0

\* variant: `=` in place of `+=`, the pattern score replaces the literal count
accumulate_overwrites(total, bonus) == bonus

\* `adb_score += ...` and `windows_score += ...`
accumulate(total, bonus) == total + bonus

\* variant: `>=` in the first test, a tie goes to "adb"
decide_log_type_tie_adb(adb, windows) ==
    IF adb >= windows THEN "adb"
    ELSE IF windows > adb THEN "windows"
    ELSE "unknown"

\* variant: the two labels are exchanged
decide_log_type_swapped(adb, windows) ==
    IF adb > windows THEN "windows"
    ELSE IF windows > adb THEN "adb"
    ELSE "unknown"

\* variant: the elif repeats the first comparison, "windows" is never returned
decide_log_type_no_windows(adb, windows) ==
    IF adb > windows THEN "adb"
    ELSE IF adb > windows THEN "windows"
    ELSE "unknown"

\* the if/elif/else on the two final scores
decide_log_type(adb, windows) ==
    IF adb > windows THEN "adb"
    ELSE IF windows > adb THEN "windows"
    ELSE "unknown"

(***************************************************************************)
(* The prompts of get_analysis_prompt.                                     *)
(***************************************************************************)
WINDOWS_PROMPT ==
    "Analyze these log sections with exit status failure and give me the reason for the failure in that sections , and give a small summary of what is happening in every section with appropriate heading without any greetings"

ADB_PROMPT_HEAD == " for the given bug description: "

ADB_PROMPT_TAIL ==
    " Analyze these ADB logs for the application. Identify the error that caused this bug, for these errors go and identify what part of the source code (given in context) which is causing the error and highlight it and try to give a possible fix for this issue."

ADB_GENERIC_PROMPT ==
    "Analyze these ADB logs for the application. Identify all the errors that were caused and for these errors give me a possible fix "

FALLBACK_PROMPT == "Analyse this log file and give me a error summary"

\* default_prompt of setup_model_configuration, the initial text of the
\* custom-prompt field
default_prompt == "Analyse this log file and give me an error summary"

\* the branch of get_analysis_prompt that the arguments select
PromptBranch(detected_log_type, bug_description) ==
    IF detected_log_type = "windows" THEN "desktop"
    ELSE IF detected_log_type = "adb"
         THEN IF bug_description # "" THEN "mobile_description" ELSE "mobile_generic"
         ELSE "unknown"

\* variant: the desktop prompt is an f-string over the bug description too
get_analysis_prompt_windows_interpolates(detected_log_type, bug_description, custom_prompt) ==
    IF detected_log_type = "windows"
    THEN ADB_PROMPT_HEAD \o bug_description \o " " \o WINDOWS_PROMPT
    ELSE IF detected_log_type = "adb"
         THEN IF bug_description # ""
              THEN ADB_PROMPT_HEAD \o bug_description \o ADB_PROMPT_TAIL
              ELSE ADB_GENERIC_PROMPT
         ELSE IF custom_prompt # "" THEN custom_prompt ELSE FALLBACK_PROMPT

\* variant: the mobile branch has no else, an empty description returns None
get_analysis_prompt_no_generic(detected_log_type, bug_description, custom_prompt) ==
    IF detected_log_type = "windows" THEN WINDOWS_PROMPT
    ELSE IF detected_log_type = "adb"
         THEN IF bug_description # ""
              THEN ADB_PROMPT_HEAD \o bug_description \o ADB_PROMPT_TAIL
              ELSE ""
         ELSE IF custom_prompt # "" THEN custom_prompt ELSE FALLBACK_PROMPT

\* variant: the mobile template interpolates the custom prompt
get_analysis_prompt_adb_custom(detected_log_type, bug_description, custom_prompt) ==
    IF detected_log_type = "windows" THEN WINDOWS_PROMPT
    ELSE IF detected_log_type = "adb"
         THEN IF bug_description # ""
              THEN ADB_PROMPT_HEAD \o custom_prompt \o ADB_PROMPT_TAIL
              ELSE ADB_GENERIC_PROMPT
         ELSE IF custom_prompt # "" THEN custom_prompt ELSE FALLBACK_PROMPT

\* get_analysis_prompt(detected_log_type, bug_description, custom_prompt)
get_analysis_prompt(detected_log_type, bug_description, custom_prompt) ==
    IF detected_log_type = "windows" THEN WINDOWS_PROMPT
    ELSE IF detected_log_type = "adb"
         THEN IF bug_description # ""
              THEN ADB_PROMPT_HEAD \o bug_description \o ADB_PROMPT_TAIL
              ELSE ADB_GENERIC_PROMPT
         ELSE IF custom_prompt # "" THEN custom_prompt ELSE FALLBACK_PROMPT

(***************************************************************************)
(* Inputs.                                                                 *)
(***************************************************************************)
\* Pieces of log text; a text is a concatenation of pieces.
Fragments ==
    { " \n", "xyz ", "logcat ", "ActivityThread", "E/Tag ", "I/a", "d/x ",
      "07-15 12:30:45.123 ", "7-15 12:30:45.123 ", "com.zebra.app ",
      "Section start: X ", "Exit status: FAILURE", "Error ",
      "COM.Android.x ", "F/t_1 " }

RECURSIVE Concat(_)
Concat(fs) == IF fs = <<>> THEN "" ELSE Head(fs) \o Concat(Tail(fs))

Texts == { Concat(fs) : fs \in UNION { [1..n -> Fragments] : n \in 0..MaxFrags } }

\* the texts of SpecPure, where every pair of classifications is compared
PureFragments == { " \n", "xyz ", "logcat ", "ActivityThread", "Error " }

PureTexts ==
    { Concat(fs) : fs \in UNION { [1..n -> PureFragments] : n \in 0..MaxPureFrags } }

LogTypes == { "windows", "adb", "unknown", "linux" }
BugDescriptions == { "", "login crashes", " ", "{custom_prompt}" }
CustomPrompts == { "", "my custom prompt", "login crashes", default_prompt }

(***************************************************************************)
(* State machine.                                                          *)
(***************************************************************************)
NoCall ==
    [ branch |-> "none", detected_log_type |-> "", bug_description |-> "",
      custom_prompt |-> "", out |-> "" ]

\* the button has not been pressed: no locals, no temporary file
NoHandler ==
    [ pc |-> "idle", files |-> <<>>, i |-> 0, file_ids |-> <<>>,
      temp_file_paths |-> <<>>, process_exit |-> "", recorded |-> {},
      uploaded |-> {}, cleaned |-> {}, fs |-> {}, stuck |-> {}, exit |-> "",
      content |-> "", seek |-> "", detected_log_type |-> "",
      bug_description |-> "", analysis_prompt |-> "", request_sent |-> FALSE,
      request_text |-> "", api |-> "", raised |-> "" ]

\* a file object that nothing has been read from yet
NoFile ==
    [ kind |-> "none", type |-> "", has_getvalue |-> FALSE, has_read |-> FALSE,
      has_seek |-> FALSE, is_bytes |-> FALSE, content |-> <<>> ]

\* no text extraction has been made
NoExtraction ==
    [ op |-> "none", file |-> NoFile, pdf |-> "", raised |-> "", value |-> <<>>,
      warned |-> FALSE ]

\* no call of the sidebar code has been made
NoSidebar ==
    [ op |-> "none", secrets |-> {}, jira_projects |-> <<>>, key |-> "",
      raised |-> "", supported |-> FALSE, fetched |-> FALSE,
      bug_description |-> "", attached_file |-> "None", vector_store_id |-> <<>> ]

\* no classification is remembered
NoLast == [ made |-> FALSE, text |-> "", none |-> FALSE, result |-> "" ]

Init ==
    /\ pc = "idle"
    /\ content = ""
    /\ content_none = FALSE
    /\ content_lower = ""
    /\ idx = 0
    /\ adb_score = 0
    /\ windows_score = 0
    /\ score = 0
    /\ steps = 0
    /\ result = ""
    /\ call = NoCall
    /\ prev = NoCall
    /\ last = NoLast
    /\ sidebar = NoSidebar
    /\ extraction = NoExtraction
    /\ handler = NoHandler

\* detect_log_type(content) is entered; blank input returns at once, any other
\* input reaches the first generator with content_lower computed.
DetectLogType(none, text) ==
    /\ pc = "idle"
    /\ UNCHANGED otherVars
    /\ content' = text
    /\ content_none' = none
    /\ call' = NoCall
    /\ prev' = NoCall
    /\ IF IsBlank(none, text)
       THEN /\ pc' = "returned"
            /\ result' = "unknown"
            /\ UNCHANGED <<content_lower, idx, adb_score, windows_score, score, steps>>
       ELSE /\ pc' = "adb_literals"
            /\ content_lower' = lower(text)
            /\ idx' = 1
            /\ adb_score' = fresh_score(adb_score)
            /\ windows_score' = fresh_score(windows_score)
            /\ UNCHANGED <<score, steps, result>>

\* one element of `sum(1 for indicator in adb_indicators if ...)`
AdbLiteral ==
    /\ pc = "adb_literals"
    /\ UNCHANGED otherVars
    /\ adb_score' = IF indicator_hit(adb_indicators[idx], content_lower)
                    THEN adb_score + 1 ELSE adb_score
    /\ steps' = steps + 1
    /\ IF idx < Len(adb_indicators)
       THEN idx' = idx + 1 /\ pc' = pc
       ELSE idx' = 1 /\ pc' = "windows_literals"
    /\ UNCHANGED <<content, content_none, content_lower, windows_score, score,
                   result, call, prev>>

\* one element of `sum(1 for indicator in windows_indicators if ...)`
WindowsLiteral ==
    /\ pc = "windows_literals"
    /\ UNCHANGED otherVars
    /\ windows_score' = IF indicator_hit(windows_indicators[idx], content_lower)
                        THEN windows_score + 1 ELSE windows_score
    /\ steps' = steps + 1
    /\ IF idx < Len(windows_indicators)
       THEN idx' = idx + 1 /\ pc' = pc
       ELSE idx' = 0 /\ pc' = "android_timestamp" /\ score' = 0
    /\ IF idx < Len(windows_indicators) THEN UNCHANGED score ELSE TRUE
    /\ UNCHANGED <<content, content_none, content_lower, adb_score, result, call, prev>>

\* _calculate_android_patterns: the timestamp bonus
AndroidTimestamp ==
    /\ pc = "android_timestamp"
    /\ UNCHANGED otherVars
    /\ score' = score + android_timestamp_score(content)
    /\ steps' = steps + 1
    /\ pc' = "android_log_pattern"
    /\ UNCHANGED <<content, content_none, content_lower, idx, adb_score,
                   windows_score, result, call, prev>>

\* _calculate_android_patterns: two points per log-level/tag match
AndroidLogPattern ==
    /\ pc = "android_log_pattern"
    /\ UNCHANGED otherVars
    /\ score' = score + android_log_score(content)
    /\ steps' = steps + 1
    /\ pc' = "android_packages"
    /\ UNCHANGED <<content, content_none, content_lower, idx, adb_score,
                   windows_score, result, call, prev>>

\* _calculate_android_patterns: the package bonus; it lowers content itself
AndroidPackages ==
    /\ pc = "android_packages"
    /\ UNCHANGED otherVars
    /\ score' = score + android_package_score(content)
    /\ steps' = steps + 1
    /\ pc' = "android_return"
    /\ UNCHANGED <<content, content_none, content_lower, idx, adb_score,
                   windows_score, result, call, prev>>

\* adb_score += _calculate_android_patterns(content)
AndroidReturn ==
    /\ pc = "android_return"
    /\ UNCHANGED otherVars
    /\ adb_score' = accumulate(adb_score, score)
    /\ score' = 0
    /\ steps' = steps + 1
    /\ pc' = "windows_patterns"
    /\ UNCHANGED <<content, content_none, content_lower, idx, windows_score,
                   result, call, prev>>

\* _calculate_windows_patterns(content_lower): the section-marker bonus
WindowsPatterns ==
    /\ pc = "windows_patterns"
    /\ UNCHANGED otherVars
    /\ score' = score + windows_pattern_score(content_lower)
    /\ steps' = steps + 1
    /\ pc' = "windows_return"
    /\ UNCHANGED <<content, content_none, content_lower, idx, adb_score,
                   windows_score, result, call, prev>>

\* windows_score += _calculate_windows_patterns(content_lower)
WindowsReturn ==
    /\ pc = "windows_return"
    /\ UNCHANGED otherVars
    /\ windows_score' = accumulate(windows_score, score)
    /\ score' = 0
    /\ steps' = steps + 1
    /\ pc' = "decide"
    /\ UNCHANGED <<content, content_none, content_lower, idx, adb_score,
                   result, call, prev>>

\* the decision rule on the two final scores
Decide ==
    /\ pc = "decide"
    /\ UNCHANGED otherVars
    /\ result' = decide_log_type(adb_score, windows_score)
    /\ pc' = "returned"
    /\ UNCHANGED <<content, content_none, content_lower, idx, adb_score,
                   windows_score, score, steps, call, prev>>

\* the caller takes the result; the locals of the call are gone
Return ==
    /\ pc = "returned"
    /\ UNCHANGED otherVars
    /\ pc' = "idle"
    /\ content' = ""
    /\ content_none' = FALSE
    /\ content_lower' = ""
    /\ idx' = 0
    /\ adb_score' = 0
    /\ windows_score' = 0
    /\ score' = 0
    /\ steps' = 0
    /\ result' = ""
    /\ UNCHANGED <<call, prev>>

\* one call of get_analysis_prompt(t, d, c)
GetAnalysisPrompt(t, d, c) ==
    /\ pc = "idle"
    /\ UNCHANGED otherVars
    /\ pc' = "prompt_returned"
    /\ call' = [ branch |-> PromptBranch(t, d), detected_log_type |-> t,
                 bug_description |-> d, custom_prompt |-> c,
                 out |-> get_analysis_prompt(t, d, c) ]
    /\ UNCHANGED <<content, content_none, content_lower, idx, adb_score,
                   windows_score, score, steps, result, prev>>

\* the caller takes the prompt; prev remembers the call for the next one
PromptReturn ==
    /\ pc = "prompt_returned"
    /\ UNCHANGED otherVars
    /\ pc' = "idle"
    /\ prev' = call
    /\ call' = NoCall
    /\ UNCHANGED <<content, content_none, content_lower, idx, adb_score,
                   windows_score, score, steps, result>>

Next ==
    \/ \E text \in Texts : DetectLogType(FALSE, text)
    \/ DetectLogType(TRUE, "")
    \/ AdbLiteral
    \/ WindowsLiteral
    \/ AndroidTimestamp
    \/ AndroidLogPattern
    \/ AndroidPackages
    \/ AndroidReturn
    \/ WindowsPatterns
    \/ WindowsReturn
    \/ Decide
    \/ Return
    \/ \E t \in LogTypes, d \in BugDescriptions, c \in CustomPrompts :
           GetAnalysisPrompt(t, d, c)
    \/ PromptReturn

Spec == Init /\ [][Next]_vars

(***************************************************************************)
(* SpecSidebar: the project lookup of jira_utils.py and setup_sidebar of    *)
(* main.py.  Each call is one step; JIRA's answers and the configured       *)
(* secrets are inputs.  None is written "None" for a file and <<>> for a    *)
(* list of vector store ids; an exception is the record field raised.       *)
(***************************************************************************)
\* the keys of constants.py that name vector stores
VectorStoreSecrets ==
    { "atsp_vs_id", "evt_atf_master_vs_id", "evt_libzebra_master_vs_id",
      "atss_sc", "atss_sdk_sc" }

\* the vector-store getters that class StreamlitSecretsHelper defines, each
\* with the key it reads
HelperMethods ==
    ( "get_atsp_vs_id" :> "atsp_vs_id" ) @@
    ( "get_evt_atf_master_vs_id" :> "evt_atf_master_vs_id" ) @@
    ( "get_evt_libzebra_master_vs_id" :> "evt_libzebra_master_vs_id" )

\* StreamlitSecretsHelper.get_secret(name): st.secrets[name], KeyError re-raised
get_secret(name, secrets) ==
    IF name \in secrets
    THEN [ raised |-> "", value |-> "vs_" \o name ]
    ELSE [ raised |-> "KeyError", value |-> "" ]

\* StreamlitSecretsHelper.<method>(): an attribute the class does not define
\* raises AttributeError
helper_call(method, secrets) ==
    IF method \in DOMAIN HelperMethods
    THEN get_secret(HelperMethods[method], secrets)
    ELSE [ raised |-> "AttributeError", value |-> "" ]

\* the dict {} that get_vector_store_mapping returns from its except branch
EmptyMapping == [ k \in {} |-> [ vs |-> <<>>, type |-> "" ] ]

\* get_vector_store_mapping(): the dict literal evaluates its four getters
\* in order; any exception is caught and {} returned
get_vector_store_mapping(secrets) ==
    LET atss == helper_call("get_atss_vs_id", secrets)
        atsp == helper_call("get_atsp_vs_id", secrets)
        atf  == helper_call("get_evt_atf_master_vs_id", secrets)
        libz == helper_call("get_evt_libzebra_master_vs_id", secrets)
    IN  IF \E r \in {atss, atsp, atf, libz} : r.raised # ""
        THEN EmptyMapping
        ELSE ( "ATSS" :> [ vs |-> <<atss.value>>, type |-> "adb" ] ) @@
             ( "ATSP" :> [ vs |-> <<atsp.value>>, type |-> "adb" ] ) @@
             ( "EVT"  :> [ vs |-> <<atf.value, libz.value>>, type |-> "unknown" ] )

\* is_project_supported(project_key)
is_project_supported(project_key, secrets) ==
    project_key \in DOMAIN get_vector_store_mapping(secrets)

\* get_vector_store_id(project_key): `.get(project_key, None).get("vs", None)`;
\* for a key that is not mapped the second .get is called on None
get_vector_store_id(project_key, secrets) ==
    LET mapping == get_vector_store_mapping(secrets)
    IN  IF project_key \in DOMAIN mapping
        THEN [ raised |-> "", value |-> mapping[project_key].vs ]
        ELSE [ raised |-> "AttributeError", value |-> <<>> ]

\* variant: the bug list is fetched for every selected project
fetches_bugs_always(tool_supported) == TRUE

\* `if tool_supported:` before handle_bug_selection
fetches_bugs(tool_supported) == tool_supported

\* handle_bug_selection(selected_project_key) with JIRA's answers: whether
\* the project has bugs, whether the user picked one, what
\* get_bug_description returned ("None" on failure) and what
\* handle_attachments returned
handle_bug_selection(has_bugs, bug_picked, bug_details, attachment) ==
    IF has_bugs /\ bug_picked /\ bug_details # "None"
    THEN [ bug_description |-> bug_details, attached_file |-> attachment ]
    ELSE [ bug_description |-> "", attached_file |-> "None" ]

\* setup_sidebar(): jira_projects is what get_jira_projects returned (<<>> on
\* failure), selection the index picked in the project box (0 for "Select a
\* project")
setup_sidebar(secrets, jira_projects, selection, has_bugs, bug_picked, bug_details, attachment) ==
    LET none == [ NoSidebar EXCEPT !.op = "setup_sidebar", !.secrets = secrets,
                                   !.jira_projects = jira_projects ]
    IN  IF jira_projects = <<>> \/ selection = 0
        THEN none
        ELSE LET selected_project_key == jira_projects[selection]
                 tool_supported == is_project_supported(selected_project_key, secrets)
                 vs == IF tool_supported
                       THEN get_vector_store_id(selected_project_key, secrets).value
                       ELSE <<>>
                 bug == IF fetches_bugs(tool_supported)
                        THEN handle_bug_selection(has_bugs, bug_picked, bug_details, attachment)
                        ELSE [ bug_description |-> "", attached_file |-> "None" ]
             IN  [ none EXCEPT !.key = selected_project_key,
                               !.supported = tool_supported,
                               !.fetched = fetches_bugs(tool_supported),
                               !.vector_store_id = vs,
                               !.bug_description = bug.bug_description,
                               !.attached_file = bug.attached_file ]

ProjectKeys == { "ATSS", "ATSP", "EVT", "ABC" }
ProjectLists == { <<>>, <<"ATSP">>, <<"ABC", "EVT">>, <<"ATSS", "ABC">> }
BugDetails == { "None", "No description provided", "login crashes" }
Attachments == { "None", "device.log" }

classifierVars ==
    <<pc, content, content_none, content_lower, idx, adb_score, windows_score,
      score, steps, result, call, prev, last>>

\* a direct call of is_project_supported
IsProjectSupported(project_key, secrets) ==
    /\ sidebar.op = "none"
    /\ sidebar' = [ NoSidebar EXCEPT !.op = "is_project_supported",
                                     !.secrets = secrets, !.key = project_key,
                                     !.supported = is_project_supported(project_key, secrets) ]
    /\ UNCHANGED <<classifierVars, extraction, handler>>

\* a direct call of get_vector_store_id
GetVectorStoreId(project_key, secrets) ==
    /\ sidebar.op = "none"
    /\ LET r == get_vector_store_id(project_key, secrets)
       IN  sidebar' = [ NoSidebar EXCEPT !.op = "get_vector_store_id",
                                         !.secrets = secrets, !.key = project_key,
                                         !.raised = r.raised,
                                         !.vector_store_id = r.value ]
    /\ UNCHANGED <<classifierVars, extraction, handler>>

\* one run of setup_sidebar
SetupSidebar(secrets, jira_projects, selection, has_bugs, bug_picked, bug_details, attachment) ==
    /\ sidebar.op = "none"
    /\ sidebar' = setup_sidebar(secrets, jira_projects, selection, has_bugs,
                                bug_picked, bug_details, attachment)
    /\ UNCHANGED <<classifierVars, extraction, handler>>

\* the caller has taken what the call returned
SidebarReturn ==
    /\ sidebar.op # "none"
    /\ sidebar' = NoSidebar
    /\ UNCHANGED <<classifierVars, extraction, handler>>

SidebarNext ==
    \/ \E k \in ProjectKeys, secrets \in SUBSET VectorStoreSecrets :
           IsProjectSupported(k, secrets)
    \/ \E k \in ProjectKeys, secrets \in SUBSET VectorStoreSecrets :
           GetVectorStoreId(k, secrets)
    \/ \E secrets \in SUBSET VectorStoreSecrets, jira_projects \in ProjectLists,
          has_bugs \in BOOLEAN, bug_picked \in BOOLEAN,
          bug_details \in BugDetails, attachment \in Attachments :
           \E selection \in 0..Len(jira_projects) :
               SetupSidebar(secrets, jira_projects, selection, has_bugs,
                            bug_picked, bug_details, attachment)
    \/ SidebarReturn

SpecSidebar == Init /\ [][SidebarNext]_vars

(***************************************************************************)
(* SpecExtract: extract_text_from_file.  Bytes are sequences of numbers     *)
(* below 256 and a str is the sequence of its code points, so "" is <<>>.   *)
(* The outcome of a call is a record: the exception that left it (raised),  *)
(* the value returned, and whether st.warning was called on the way.        *)
(***************************************************************************)
MaxChunks == 2

Returns(v) == [ raised |-> "", value |-> v, warned |-> FALSE ]
Raises(e) == [ raised |-> e, value |-> <<>>, warned |-> FALSE ]
\* st.warning(...) followed by return ""
WarnsAndReturnsEmpty == [ raised |-> "", value |-> <<>>, warned |-> TRUE ]

\* b'%PDF'
PDF_HEADER == <<37, 80, 68, 70>>

\* the bytes that contents are made of: "%PDF", "a", the two bytes of U+00E9
\* in UTF-8, the byte 0xFF that no UTF-8 text holds, a lead byte alone and a
\* continuation byte alone
ByteChunks == { PDF_HEADER, <<97>>, <<195, 169>>, <<255>>, <<195>>, <<169>> }

RECURSIVE ConcatBytes(_)
ConcatBytes(n) ==
    IF n = 0 THEN { <<>> }
    ELSE LET shorter == ConcatBytes(n - 1)
         IN  shorter \cup { c \o b : c \in shorter, b \in ByteChunks }

Contents == ConcatBytes(MaxChunks)

IsAscii(b) == b < 128
IsLead2(b) == b >= 194 /\ b <= 223
IsContinuation(b) == b >= 128 /\ b <= 191

\* bytes.decode('utf-8') for bytes below 0xE0: ASCII bytes stand for
\* themselves, a two-byte lead with its continuation byte gives one code
\* point, anything else is a UnicodeDecodeError
RECURSIVE utf8_decode(_, _, _)
utf8_decode(bytes, i, acc) ==
    IF i > Len(bytes) THEN Returns(acc)
    ELSE IF IsAscii(bytes[i]) THEN utf8_decode(bytes, i + 1, Append(acc, bytes[i]))
    ELSE IF IsLead2(bytes[i]) /\ i < Len(bytes) /\ IsContinuation(bytes[i + 1])
         THEN utf8_decode(bytes, i + 2,
                          Append(acc, (bytes[i] - 192) * 64 + (bytes[i + 1] - 128)))
    ELSE Raises("UnicodeDecodeError")

decode_utf8(bytes) == utf8_decode(bytes, 1, <<>>)

\* bytes.decode('latin-1'): every byte is the code point of the same number,
\* no byte is rejected
decode_latin1(bytes) == Returns([ i \in 1..Len(bytes) |-> bytes[i] ])

\* _decode_text_content(content): utf-8, then the loop over latin-1, cp1252
\* and iso-8859-1, which returns in its first round
_decode_text_content(data) ==
    LET r == decode_utf8(data)
    IN  IF r.raised = "" THEN r ELSE decode_latin1(data)

\* what PyPDF2 does with a document: the import fails, PdfReader raises, a
\* page's extract_text returns None, there is no page, or one page of text
PdfOutcomes == { "ImportError", "PdfReadError", "NonePage", "NoPages", "OnePage" }

\* the try block shared by _extract_pdf_text and _extract_pdf_text_from_bytes
pdf_pages_text(pdf) ==
    CASE pdf = "ImportError"  -> Raises("ImportError")
      [] pdf = "PdfReadError" -> Raises("PdfReadError")
      [] pdf = "NonePage"     -> Raises("TypeError")
      [] pdf = "NoPages"      -> Returns(<<>>)
      [] OTHER                -> Returns(<<97, 10>>)

\* _extract_pdf_text(file_obj)
_extract_pdf_text(pdf) ==
    LET r == pdf_pages_text(pdf)
    IN  IF r.raised # "" THEN WarnsAndReturnsEmpty ELSE r

\* _extract_pdf_text_from_bytes(pdf_bytes)
_extract_pdf_text_from_bytes(pdf) ==
    LET r == pdf_pages_text(pdf)
    IN  IF r.raised # "" THEN WarnsAndReturnsEmpty ELSE r

\* the try block of _fallback_text_extraction
fallback_body(f) ==
    IF ~f.has_getvalue /\ ~f.has_read THEN WarnsAndReturnsEmpty
    ELSE IF ~f.has_getvalue /\ ~f.has_seek THEN Raises("AttributeError")
    ELSE IF f.is_bytes THEN decode_utf8(f.content)
    ELSE Returns(f.content)

\* _fallback_text_extraction(uploaded_file)
_fallback_text_extraction(f) ==
    LET r == fallback_body(f)
    IN  IF r.raised # "" THEN WarnsAndReturnsEmpty ELSE r

HasPdfHeader(data) ==
    Len(data) >= Len(PDF_HEADER) /\ SubSeq(data, 1, Len(PDF_HEADER)) = PDF_HEADER

\* the try block of extract_text_from_file
extract_text_body(f, pdf) ==
    IF f.kind = "BytesIO"
    THEN IF HasPdfHeader(f.content) THEN _extract_pdf_text(pdf)
         ELSE _decode_text_content(f.content)
    ELSE IF f.kind = "typed"
    THEN IF ~f.has_getvalue THEN Raises("AttributeError")
         ELSE IF f.type = "application/pdf" THEN _extract_pdf_text_from_bytes(pdf)
         ELSE IF f.type \in {"text/plain", "text/csv", "application/json"}
              THEN decode_utf8(f.content)
         ELSE LET r == decode_utf8(f.content)
              IN  IF r.raised = "UnicodeDecodeError" THEN WarnsAndReturnsEmpty ELSE r
    ELSE _fallback_text_extraction(f)

\* variant: the function without its outer try/except
extract_text_from_file_unguarded(f, pdf) == extract_text_body(f, pdf)

\* extract_text_from_file(uploaded_file): `except Exception` warns and
\* returns ""
extract_text_from_file(f, pdf) ==
    LET r == extract_text_body(f, pdf)
    IN  IF r.raised # "" THEN WarnsAndReturnsEmpty ELSE r

FileTypes ==
    { "application/pdf", "text/plain", "text/csv", "application/json",
      "application/zip" }

\* the file objects: a BytesIO of an attachment, an object with a type
\* attribute, and an object without one
FileObjects ==
    { [ NoFile EXCEPT !.kind = "BytesIO", !.has_getvalue = TRUE, !.has_read = TRUE,
                      !.has_seek = TRUE, !.is_bytes = TRUE, !.content = c ] :
        c \in Contents }
    \cup
    { [ NoFile EXCEPT !.kind = "typed", !.type = t, !.has_getvalue = g,
                      !.is_bytes = TRUE, !.content = c ] :
        t \in FileTypes, g \in BOOLEAN, c \in Contents }
    \cup
    { [ NoFile EXCEPT !.kind = "untyped", !.has_getvalue = fl[1], !.has_read = fl[2],
                      !.has_seek = fl[3], !.is_bytes = fl[4], !.content = c ] :
        fl \in BOOLEAN \X BOOLEAN \X BOOLEAN \X BOOLEAN, c \in Contents }

\* one call of extract_text_from_file
ExtractTextFromFile(f, pdf) ==
    /\ extraction.op = "none"
    /\ LET r == extract_text_from_file(f, pdf)
       IN  extraction' = [ op |-> "extract_text_from_file", file |-> f, pdf |-> pdf,
                           raised |-> r.raised, value |-> r.value,
                           warned |-> r.warned ]
    /\ UNCHANGED <<classifierVars, sidebar, handler>>

\* the caller has taken the text
ExtractReturn ==
    /\ extraction.op # "none"
    /\ extraction' = NoExtraction
    /\ UNCHANGED <<classifierVars, sidebar, handler>>

ExtractNext ==
    \/ \E f \in FileObjects, pdf \in PdfOutcomes : ExtractTextFromFile(f, pdf)
    \/ ExtractReturn

SpecExtract == Init /\ [][ExtractNext]_vars

(***************************************************************************)
(* SpecAnalyze: the 'Analyze Log File' handler of main with                 *)
(* process_files_for_analysis and perform_ai_analysis, step by step.  A     *)
(* file of files_to_analyze is given by what happens when it is processed;  *)
(* the temporary path and the file id of the i-th file are both written i.  *)
(* handler.fs is the set of temporary files on disk, handler.recorded the   *)
(* paths ever appended to temp_file_paths, handler.cleaned the paths ever   *)
(* passed to cleanup_temp_files, handler.stuck the files whose os.unlink    *)
(* raised.                                                                  *)
(***************************************************************************)
MaxFiles == 2

\* what processing a file does: convert_to_pdf returns (None, None), seek
\* raises, create_temp_pdf_file raises, client.files.create raises, or all
\* succeed
FileOutcomes == { "convert_none", "seek_raises", "tempfile_raises", "upload_raises", "ok" }

RECURSIVE FileLists(_)
FileLists(n) ==
    IF n = 0 THEN { <<>> }
    ELSE LET shorter == FileLists(n - 1)
         IN  shorter \cup { Append(fl, o) : fl \in shorter, o \in FileOutcomes }

Range(seq) == { seq[k] : k \in DOMAIN seq }

\* detect_log_type(content) as one function of its argument
detect_log_type(none, text) ==
    IF IsBlank(none, text) THEN "unknown"
    ELSE LET lowered == lower(text)
             adb_literals == Cardinality({ k \in DOMAIN adb_indicators :
                                 indicator_hit(adb_indicators[k], lowered) })
             windows_literals == Cardinality({ k \in DOMAIN windows_indicators :
                                     indicator_hit(windows_indicators[k], lowered) })
             adb == accumulate(adb_literals,
                               android_timestamp_score(text) + android_log_score(text)
                                   + android_package_score(text))
             windows == accumulate(windows_literals, windows_pattern_score(lowered))
         IN  decide_log_type(adb, windows)

\* variant: the paths are handed over without the last one
cleanup_temp_files_but_last(file_paths) ==
    SubSeq(file_paths, 1, Len(file_paths) - 1)

\* cleanup_temp_files(*file_paths): the paths the loop goes through
cleanup_temp_files(file_paths) == file_paths

\* the effect of cleanup_temp_files(*file_paths) on the handler h, when
\* os.unlink raises for the files of unlink_raises
Cleanup(h, file_paths, unlink_raises) ==
    LET passed == Range(cleanup_temp_files(file_paths))
    IN  [ h EXCEPT !.cleaned = @ \cup passed,
                   !.fs = @ \ (passed \ unlink_raises),
                   !.stuck = @ \cup (passed \cap unlink_raises \cap h.fs) ]

\* variant: the except branch returns the lists as they are
process_error_result_keeps(file_ids, temp_file_paths) == <<file_ids, temp_file_paths>>

\* `return [], []` of the except branch
process_error_result(file_ids, temp_file_paths) == << <<>>, <<>> >>

\* the try block of the detection in perform_ai_analysis: text is what
\* extract_text_from_file returned for the first file, seek is "absent",
\* "ok" or "raises"
detection_body(text, seek) ==
    IF seek = "raises" THEN [ raised |-> "OSError", detected_log_type |-> "" ]
    ELSE IF text # "" THEN [ raised |-> "", detected_log_type |-> detect_log_type(FALSE, text) ]
    ELSE [ raised |-> "", detected_log_type |-> "unknown" ]

\* variant: the detection without its try/except
detection_unguarded(text, seek) == detection_body(text, seek)

\* the detection of perform_ai_analysis: `except Exception` sets "unknown"
detection(text, seek) ==
    LET r == detection_body(text, seek)
    IN  IF r.raised # "" THEN [ raised |-> "", detected_log_type |-> "unknown" ] ELSE r

DetectionTexts == { "", " \n", "logcat ", "Error " }
SeekOutcomes == { "absent", "ok", "raises" }
HandlerDescriptions == { "", "login crashes" }
HandlerPrompts == { "", "my custom prompt" }
CallOutcomes == { "ok", "raises" }

otherThanHandler == <<classifierVars, sidebar, extraction>>

\* the button is pressed with files_to_analyze = files
ClickAnalyze(files) ==
    /\ handler.pc = "idle"
    /\ handler' = IF files = <<>>
                  THEN [ NoHandler EXCEPT !.pc = "returned", !.exit = "no_files" ]
                  ELSE [ NoHandler EXCEPT !.pc = "process_files", !.files = files,
                                          !.i = 1 ]
    /\ UNCHANGED otherThanHandler

\* the except branch of process_files_for_analysis taken from h
ProcessExcept(h) ==
    \E unlink_raises \in SUBSET Range(h.temp_file_paths) :
        LET r == process_error_result(h.file_ids, h.temp_file_paths)
        IN  handler' = [ Cleanup(h, h.temp_file_paths, unlink_raises) EXCEPT
                           !.file_ids = r[1], !.temp_file_paths = r[2],
                           !.pc = "processed", !.process_exit = "except" ]

\* one round of the loop of process_files_for_analysis
ProcessFile ==
    /\ handler.pc = "process_files"
    /\ handler.i <= Len(handler.files)
    /\ LET outcome == handler.files[handler.i]
           path == handler.i
           created == [ handler EXCEPT !.fs = @ \cup {path} ]
           appended == [ created EXCEPT !.temp_file_paths = Append(@, path),
                                        !.recorded = @ \cup {path} ]
       IN  CASE outcome = "convert_none" ->
                    handler' = [ handler EXCEPT !.i = @ + 1 ]
             [] outcome = "seek_raises" -> ProcessExcept(handler)
             [] outcome = "tempfile_raises" -> ProcessExcept(created)
             [] outcome = "upload_raises" -> ProcessExcept(appended)
             [] OTHER ->
                    handler' = [ appended EXCEPT !.file_ids = Append(@, path),
                                                 !.uploaded = @ \cup {path},
                                                 !.i = @ + 1 ]
    /\ UNCHANGED otherThanHandler

\* `return file_ids, temp_file_paths` after the loop
ProcessFilesReturn ==
    /\ handler.pc = "process_files"
    /\ handler.i > Len(handler.files)
    /\ handler' = [ handler EXCEPT !.pc = "processed", !.process_exit = "normal" ]
    /\ UNCHANGED otherThanHandler

\* `if not file_ids: ... return`
CheckFileIds ==
    /\ handler.pc = "processed"
    /\ handler' = IF handler.file_ids = <<>>
                  THEN [ handler EXCEPT !.pc = "returned", !.exit = "no_file_ids" ]
                  ELSE [ handler EXCEPT !.pc = "perform_ai_analysis" ]
    /\ UNCHANGED otherThanHandler

\* perform_ai_analysis: the detection on the first file, the prompt, and
\* client.responses.create, which answers or raises
PerformAiAnalysis(text, seek, bug_description, analysis_prompt, api) ==
    /\ handler.pc = "perform_ai_analysis"
    /\ LET d == detection(text, seek)
           inputs == [ handler EXCEPT !.content = text, !.seek = seek,
                                      !.bug_description = bug_description,
                                      !.analysis_prompt = analysis_prompt ]
       IN  IF d.raised # ""
           THEN handler' = [ inputs EXCEPT !.raised = d.raised, !.pc = "finally" ]
           ELSE handler' =
                  [ inputs EXCEPT
                      !.detected_log_type = d.detected_log_type,
                      !.request_sent = TRUE,
                      !.request_text = get_analysis_prompt(d.detected_log_type,
                                           bug_description, analysis_prompt),
                      !.api = api,
                      !.raised = IF api = "raises" THEN "APIError" ELSE "",
                      !.pc = IF api = "raises" THEN "finally" ELSE "display" ]
    /\ UNCHANGED otherThanHandler

\* display_analysis_results, which returns or raises
DisplayAnalysisResults(outcome) ==
    /\ handler.pc = "display"
    /\ handler' = [ handler EXCEPT
                      !.raised = IF outcome = "raises" THEN "DisplayError" ELSE "",
                      !.pc = "finally" ]
    /\ UNCHANGED otherThanHandler

\* `finally: cleanup_temp_files(*temp_file_paths)`
Finally ==
    /\ handler.pc = "finally"
    /\ \E unlink_raises \in SUBSET Range(handler.temp_file_paths) :
           handler' = [ Cleanup(handler, handler.temp_file_paths, unlink_raises) EXCEPT
                          !.pc = "returned",
                          !.exit = IF handler.raised # "" THEN "raised" ELSE "analysed" ]
    /\ UNCHANGED otherThanHandler

\* the script run is over; the next one starts with fresh locals
HandlerReturn ==
    /\ handler.pc = "returned"
    /\ handler' = NoHandler
    /\ UNCHANGED otherThanHandler

AnalyzeNext ==
    \/ \E files \in FileLists(MaxFiles) : ClickAnalyze(files)
    \/ ProcessFile
    \/ ProcessFilesReturn
    \/ CheckFileIds
    \/ \E text \in DetectionTexts, seek \in SeekOutcomes,
          bug_description \in HandlerDescriptions,
          analysis_prompt \in HandlerPrompts, api \in CallOutcomes :
           PerformAiAnalysis(text, seek, bug_description, analysis_prompt, api)
    \/ \E outcome \in CallOutcomes : DisplayAnalysisResults(outcome)
    \/ Finally
    \/ HandlerReturn

SpecAnalyze == Init /\ [][AnalyzeNext]_vars

(***************************************************************************)
(* SpecOverlap: the classifier on texts made of the mobile literals that    *)
(* hold a desktop literal, with and without other words around them.        *)
(***************************************************************************)
MaxOverlapFrags == 2

OverlapFragments ==
    { "ActivityThread", "activitythread ", "BackupManagerService",
      "LauncherAppsService", "xyz ", "logcat ", "Error " }

OverlapTexts ==
    { Concat(fs) : fs \in UNION { [1..n -> OverlapFragments] : n \in 0..MaxOverlapFrags } }

OverlapNext ==
    \/ \E text \in OverlapTexts : DetectLogType(FALSE, text)
    \/ AdbLiteral
    \/ WindowsLiteral
    \/ AndroidTimestamp
    \/ AndroidLogPattern
    \/ AndroidPackages
    \/ AndroidReturn
    \/ WindowsPatterns
    \/ WindowsReturn
    \/ Decide
    \/ Return

SpecOverlap == Init /\ [][OverlapNext]_vars

(***************************************************************************)
(* SpecPure: classification after classification.  One earlier call is     *)
(* remembered in last, and the two score variables keep the value the      *)
(* finished call gave them, as memory that a later call must not read.     *)
(***************************************************************************)
PureReturn ==
    /\ pc = "returned"
    /\ pc' = "idle"
    /\ last' \in { last,
                   [ made |-> TRUE, text |-> content, none |-> content_none,
                     result |-> result ] }
    /\ content' = ""
    /\ content_none' = FALSE
    /\ content_lower' = ""
    /\ idx' = 0
    /\ score' = 0
    /\ steps' = 0
    /\ result' = ""
    /\ UNCHANGED <<adb_score, windows_score, call, prev, sidebar, extraction, handler>>

PureNext ==
    \/ \E text \in PureTexts : DetectLogType(FALSE, text)
    \/ DetectLogType(TRUE, "")
    \/ AdbLiteral
    \/ WindowsLiteral
    \/ AndroidTimestamp
    \/ AndroidLogPattern
    \/ AndroidPackages
    \/ AndroidReturn
    \/ WindowsPatterns
    \/ WindowsReturn
    \/ Decide
    \/ PureReturn

SpecPure == Init /\ [][PureNext]_vars

(***************************************************************************)
(* Vocabulary of the properties.  These definitions state what a text      *)
(* contains, position by position; none of them is used by the actions.    *)
(***************************************************************************)
\* every character of text is whitespace (true of the empty text)
AllWhitespace(text) == \A i \in 1..Len(text) : IsSpace(CharAt(text, i))

\* a classification has returned / has returned for a text that is not blank
Returned == pc = "returned"
Classified == pc = "returned" /\ ~content_none /\ ~AllWhitespace(content)

\* the two characters are the same letter, whatever their case
SameIgnoringCase(a, b) == a = b \/ LowerChar(a) = LowerChar(b)

\* lit occurs in text as a substring, case ignored
OccursIgnoringCase(lit, text) ==
    \E i \in 1..(Len(text) - Len(lit) + 1) :
        \A k \in 1..Len(lit) : SameIgnoringCase(CharAt(text, i + k - 1), CharAt(lit, k))

\* lit occurs in text as a substring, verbatim
Occurs(lit, text) ==
    \E i \in 1..(Len(text) - Len(lit) + 1) :
        \A k \in 1..Len(lit) : CharAt(text, i + k - 1) = CharAt(lit, k)

\* the positions of the literals of a list that occur in text, case ignored
MatchedLiterals(literals, text) ==
    { k \in 1..Len(literals) : OccursIgnoringCase(literals[k], text) }

\* text holds, from index i on, the shape tpl: "d" stands for a digit, any
\* other character for itself
ShapeAt(text, i, tpl) ==
    /\ i >= 1
    /\ i + Len(tpl) - 1 <= Len(text)
    /\ \A k \in 1..Len(tpl) :
          IF CharAt(tpl, k) = "d" THEN IsDigit(CharAt(text, i + k - 1))
          ELSE CharAt(text, i + k - 1) = CharAt(tpl, k)

\* a device timestamp: dd-dd, n >= 1 whitespace characters, dd:dd:dd.ddd
HasTimestamp(text) ==
    \E i \in 1..Len(text), n \in 1..Len(text) :
        /\ ShapeAt(text, i, "dd-dd")
        /\ \A k \in 0..(n - 1) : i + 5 + k <= Len(text) /\ IsSpace(CharAt(text, i + 5 + k))
        /\ ShapeAt(text, i + 5 + n, "dd:dd:dd.ddd")

\* one of V D I W E F, a slash and a word character stand at index i
LevelTagAt(text, i) ==
    /\ i + 2 <= Len(text)
    /\ CharAt(text, i) \in {"V", "D", "I", "W", "E", "F"}
    /\ CharAt(text, i + 1) = "/"
    /\ IsWordChar(CharAt(text, i + 2))

\* the index at which the run of word characters around index i begins
RunStart(text, i) ==
    CHOOSE r \in 1..i :
        /\ \A k \in r..i : IsWordChar(CharAt(text, k))
        /\ r = 1 \/ ~IsWordChar(CharAt(text, r - 1))

\* index i lies in the word of a tag match that began earlier: the regex
\* engine has consumed it and starts no match there
RECURSIVE InsideEarlierMatch(_, _)
InsideEarlierMatch(text, i) ==
    LET r == RunStart(text, i)
    IN  /\ r >= 3
        /\ LevelTagAt(text, r - 2)
        /\ ~InsideEarlierMatch(text, r - 2)

\* where the matches of [VDIWEF]/word-characters begin
TagMatches(text) ==
    { i \in 1..Len(text) : LevelTagAt(text, i) /\ ~InsideEarlierMatch(text, i) }

HasPackagePrefix(text) ==
    \E pkg \in {"com.zebra.", "com.android.", "com.google.android."} :
        OccursIgnoringCase(pkg, text)

HasSectionPair(text) ==
    OccursIgnoringCase("section start", text) /\ OccursIgnoringCase("exit status", text)

NoMobileBonus(text) ==
    ~HasTimestamp(text) /\ TagMatches(text) = {} /\ ~HasPackagePrefix(text)

(***************************************************************************)
(* Properties.                                                             *)
(***************************************************************************)
\* C1: for a text that is not blank, detect_log_type returns "adb" exactly
\* when the final adb_score exceeds the final windows_score, "windows" exactly
\* when windows_score exceeds adb_score, and "unknown" exactly when the two are
\* equal, both zero included.
C1_DecisionByScores ==
    Classified =>
        /\ result = "adb" <=> adb_score > windows_score
        /\ result = "windows" <=> windows_score > adb_score
        /\ result = "unknown" <=> adb_score = windows_score

C1_Witness ==
    /\ Classified
    /\ adb_score = 0
    /\ windows_score = 0
    /\ result = "unknown"

\* C2: for None, the empty text and every text of whitespace only,
\* detect_log_type returns "unknown" (it returns, it does not raise) and has
\* executed no scoring statement.
C2_BlankIsUnknown ==
    (Returned /\ (content_none \/ AllWhitespace(content))) =>
        /\ result = "unknown"
        /\ steps = 0
        /\ adb_score = 0
        /\ windows_score = 0

C2_Witness ==
    /\ Returned
    /\ ~content_none
    /\ content # ""
    /\ AllWhitespace(content)
    /\ result = "unknown"
    /\ steps = 0

\* C3: for a text that is not blank the final adb_score is the number of
\* mobile indicator literals that occur in it, case ignored (one point per
\* literal, however often it occurs), plus 10 if a device timestamp occurs
\* (once), plus 2 for every match of [VDIWEF]/word-characters (matches as the
\* regex engine finds them from left to right; equal tags count each time),
\* plus 8 if one of the three package prefixes occurs (once).
C3_MobileScore ==
    Classified =>
        adb_score = Cardinality(MatchedLiterals(adb_indicators, content))
                    + (IF HasTimestamp(content) THEN 10 ELSE 0)
                    + 2 * Cardinality(TagMatches(content))
                    + (IF HasPackagePrefix(content) THEN 8 ELSE 0)

\* the same tag twice: the literal "E/" scores 1, the two matches score 2 each
C3_Witness ==
    /\ Classified
    /\ content = "E/Tag E/Tag "
    /\ Cardinality(TagMatches(content)) = 2
    /\ adb_score = 5

\* C4: for a text that is not blank the final windows_score is the number of
\* desktop indicator literals that occur in it, case ignored (one point per
\* literal), plus 5 exactly when both "section start" and "exit status" occur,
\* case ignored; with one of the two markers alone the bonus is 0.
C4_DesktopScore ==
    Classified =>
        windows_score = Cardinality(MatchedLiterals(windows_indicators, content))
                        + (IF HasSectionPair(content) THEN 5 ELSE 0)

\* one marker alone: its literals score, the bonus does not
C4_Witness ==
    /\ Classified
    /\ OccursIgnoringCase("section start", content)
    /\ ~OccursIgnoringCase("exit status", content)
    /\ windows_score = Cardinality(MatchedLiterals(windows_indicators, content))
    /\ windows_score > 0

\* C5: a text in which more mobile than desktop indicator literals occur and
\* in which the section-marker pair does not occur is classified "adb",
\* whichever mobile bonuses fire.
C5_MoreMobileLiterals ==
    (/\ Returned
     /\ ~content_none
     /\ Cardinality(MatchedLiterals(adb_indicators, content))
          > Cardinality(MatchedLiterals(windows_indicators, content))
     /\ ~HasSectionPair(content))
    => result = "adb"

\* more mobile literals, at least one desktop literal, no mobile bonus at all
C5_Witness ==
    /\ Returned
    /\ Cardinality(MatchedLiterals(adb_indicators, content))
          > Cardinality(MatchedLiterals(windows_indicators, content))
    /\ MatchedLiterals(windows_indicators, content) # {}
    /\ ~HasSectionPair(content)
    /\ NoMobileBonus(content)
    /\ result = "adb"

\* C6: a text in which exactly one mobile and exactly one desktop indicator
\* literal occur and no bonus pattern fires (no timestamp, no tag match, no
\* package prefix, no section-marker pair) is classified "unknown".
C6_TieIsUnknown ==
    (/\ Returned
     /\ ~content_none
     /\ Cardinality(MatchedLiterals(adb_indicators, content)) = 1
     /\ Cardinality(MatchedLiterals(windows_indicators, content)) = 1
     /\ NoMobileBonus(content)
     /\ ~HasSectionPair(content))
    => result = "unknown"

C6_Witness ==
    /\ Returned
    /\ Cardinality(MatchedLiterals(adb_indicators, content)) = 1
    /\ Cardinality(MatchedLiterals(windows_indicators, content)) = 1
    /\ NoMobileBonus(content)
    /\ ~HasSectionPair(content)
    /\ adb_score = 1
    /\ windows_score = 1
    /\ result = "unknown"

\* C7: a text that holds a device timestamp and no literal of either
\* indicator list is classified "adb".
C7_TimestampAlone ==
    (/\ Returned
     /\ ~content_none
     /\ HasTimestamp(content)
     /\ MatchedLiterals(adb_indicators, content) = {}
     /\ MatchedLiterals(windows_indicators, content) = {})
    => result = "adb"

\* the timestamp of the example, not at the head of the text
C7_Witness ==
    /\ Returned
    /\ Occurs("07-15 12:30:45.123", content)
    /\ ~ShapeAt(content, 1, "dd-dd")
    /\ MatchedLiterals(adb_indicators, content) = {}
    /\ MatchedLiterals(windows_indicators, content) = {}
    /\ adb_score = 10
    /\ windows_score = 0
    /\ result = "adb"

\* text holds "Section start: X", then any characters, then "Exit status: FAILURE"
HasFailedSection(text) ==
    \E i \in 1..Len(text), j \in 1..Len(text) :
        /\ ShapeAt(text, i, "Section start: X")
        /\ j >= i + Len("Section start: X")
        /\ ShapeAt(text, j, "Exit status: FAILURE")

\* C8: a text that holds "Section start: X ... Exit status: FAILURE", no
\* mobile indicator literal and no mobile bonus pattern is classified
\* "windows".
C8_FailedSectionIsWindows ==
    (/\ Returned
     /\ ~content_none
     /\ HasFailedSection(content)
     /\ MatchedLiterals(adb_indicators, content) = {}
     /\ NoMobileBonus(content))
    => result = "windows"

C8_Witness ==
    /\ Returned
    /\ HasFailedSection(content)
    /\ MatchedLiterals(adb_indicators, content) = {}
    /\ NoMobileBonus(content)
    /\ adb_score = 0
    /\ windows_score = 8
    /\ result = "windows"

\* a call of get_analysis_prompt has returned for the category t
PromptReturned(t) == pc = "prompt_returned" /\ call.detected_log_type = t

\* C9: for the category "windows" get_analysis_prompt returns the fixed
\* desktop instruction, and two calls return the same prompt whatever bug
\* description and custom prompt each of them was given.
C9_DesktopPromptFixed ==
    PromptReturned("windows") =>
        /\ call.out = WINDOWS_PROMPT
        /\ prev.detected_log_type = "windows" => call.out = prev.out

\* two desktop calls that differ in both other arguments
C9_Witness ==
    /\ PromptReturned("windows")
    /\ prev.detected_log_type = "windows"
    /\ call.bug_description # ""
    /\ call.custom_prompt # ""
    /\ call.bug_description # prev.bug_description
    /\ call.custom_prompt # prev.custom_prompt
    /\ call.out = prev.out

\* C10: for the category "adb" the prompt holds a non-empty bug description
\* verbatim as a substring, is the fixed generic instruction when the bug
\* description is empty, and in both cases does not depend on the custom
\* prompt.
C10_MobilePrompt ==
    PromptReturned("adb") =>
        /\ call.bug_description # "" => Occurs(call.bug_description, call.out)
        /\ call.bug_description = "" => call.out = ADB_GENERIC_PROMPT
        /\ (prev.detected_log_type = "adb" /\ prev.bug_description = call.bug_description)
              => call.out = prev.out

\* the example of the specification, after a call with another custom prompt
C10_Witness ==
    /\ PromptReturned("adb")
    /\ call.bug_description = "login crashes"
    /\ call.custom_prompt = ""
    /\ Occurs("login crashes", call.out)
    /\ prev.detected_log_type = "adb"
    /\ prev.bug_description = call.bug_description
    /\ prev.custom_prompt # call.custom_prompt

\* C11: for the category "unknown" get_analysis_prompt returns a non-empty
\* custom prompt exactly; with an empty custom prompt it returns the fixed
\* fallback, whose wording is "give me an error summary"; the bug description
\* has no influence.
C11_UnknownPrompt ==
    PromptReturned("unknown") =>
        /\ call.custom_prompt # "" => call.out = call.custom_prompt
        /\ call.custom_prompt = "" => Occurs("give me an error summary", call.out)
        /\ (prev.detected_log_type = "unknown" /\ prev.custom_prompt = call.custom_prompt)
              => call.out = prev.out

\* what the code does for "unknown": the custom prompt, or the literal of
\* utils.py, which reads "a error" where main.py's default reads "an error"
C11_UnknownPromptAsCoded ==
    PromptReturned("unknown") =>
        /\ call.custom_prompt # "" => call.out = call.custom_prompt
        /\ call.custom_prompt = "" =>
              /\ call.out = "Analyse this log file and give me a error summary"
              /\ call.out # default_prompt
        /\ (prev.detected_log_type = "unknown" /\ prev.custom_prompt = call.custom_prompt)
              => call.out = prev.out

\* C12: get_analysis_prompt is total: every (category, bug description,
\* custom prompt), two empty strings included, takes exactly one of the four
\* branches (desktop, mobile with description, mobile without, unknown) and
\* returns that branch's prompt, a non-empty string.
C12_PromptTotal ==
    pc = "prompt_returned" =>
        LET t == call.detected_log_type
            d == call.bug_description
            c == call.custom_prompt
            taken == { b \in {"desktop", "mobile_description", "mobile_generic", "unknown"} :
                         \/ b = "desktop" /\ call.out = WINDOWS_PROMPT
                         \/ b = "mobile_description" /\ d # ""
                              /\ call.out = ADB_PROMPT_HEAD \o d \o ADB_PROMPT_TAIL
                         \/ b = "mobile_generic" /\ call.out = ADB_GENERIC_PROMPT
                         \/ b = "unknown" /\ call.out = (IF c # "" THEN c ELSE FALLBACK_PROMPT) }
        IN  /\ call.out # ""
            /\ call.branch \in taken
            /\ call.branch = "desktop" <=> t = "windows"
            /\ call.branch = "mobile_description" <=> (t = "adb" /\ d # "")
            /\ call.branch = "mobile_generic" <=> (t = "adb" /\ d = "")
            /\ call.branch = "unknown" <=> t \notin {"windows", "adb"}

\* the mobile category with two empty strings
C12_Witness ==
    /\ PromptReturned("adb")
    /\ call.bug_description = ""
    /\ call.custom_prompt = ""
    /\ call.branch = "mobile_generic"
    /\ call.out = ADB_GENERIC_PROMPT

\* the positions of a classification pass at which the scores exist
InPass ==
    pc \in { "adb_literals", "windows_literals", "android_timestamp",
             "android_log_pattern", "android_packages", "android_return",
             "windows_patterns", "windows_return", "decide" }

\* C19: in one classification pass both scores start at 0, every step leaves
\* each score unchanged or increases it, both stay non-negative, and no step
\* changes both: a step of one category leaves the other category's score
\* alone.
C19_ScoresMonotone ==
    [][ /\ (pc = "idle" /\ InPass') => (adb_score' = 0 /\ windows_score' = 0)
        /\ InPass =>
              /\ adb_score' >= adb_score
              /\ windows_score' >= windows_score
              /\ adb_score >= 0
              /\ windows_score >= 0
              /\ adb_score' = adb_score \/ windows_score' = windows_score
              /\ pc \in {"adb_literals", "android_timestamp", "android_log_pattern",
                         "android_packages", "android_return"}
                    => windows_score' = windows_score
              /\ pc \in {"windows_literals", "windows_patterns", "windows_return"}
                    => adb_score' = adb_score ]_vars

\* a pass about to decide in which literals and a bonus have raised a score
C19_Witness ==
    /\ pc = "decide"
    /\ adb_score > TimestampBonus
    /\ windows_score > 0
    /\ steps = Len(adb_indicators) + Len(windows_indicators) + 6

\* C13: detect_log_type is pure: a call returns what an earlier call on the
\* same argument returned, whatever was classified in between, and the
\* argument is the same text from entry to return.
C13_Pure ==
    [][ /\ (pc # "idle" /\ pc' # "idle") =>
              (content' = content /\ content_none' = content_none)
        /\ (pc' = "returned" /\ last.made /\ last.text = content'
              /\ last.none = content_none')
              => result' = last.result ]_vars

\* a text that is not blank, classified a second time with the same result
C13_Witness ==
    /\ pc = "returned"
    /\ last.made
    /\ last.text = content
    /\ ~content_none
    /\ steps > 0
    /\ result = "windows"
    /\ last.result = "windows"

\* C15: with every vector-store secret configured, is_project_supported
\* returns True exactly for the keys ATSS, ATSP and EVT of the mapping, and
\* get_vector_store_id returns the mapped store ids for these keys.
C15_SupportedProjects ==
    VectorStoreSecrets \subseteq sidebar.secrets =>
        /\ sidebar.op = "is_project_supported" =>
              (sidebar.supported <=> sidebar.key \in {"ATSS", "ATSP", "EVT"})
        /\ (sidebar.op = "get_vector_store_id" /\ sidebar.key \in {"ATSS", "ATSP", "EVT"}) =>
              /\ sidebar.raised = ""
              /\ sidebar.vector_store_id # <<>>

\* C20: setup_sidebar fetches bugs only for a selected project for which
\* is_project_supported returned True; when the projects failed to load, no
\* project is selected or the project is unsupported, it returns an empty bug
\* description, no attached file and no vector store id.
C20_BugsOnlyForSupported ==
    sidebar.op = "setup_sidebar" =>
        /\ sidebar.fetched => (sidebar.key # "" /\ sidebar.supported)
        /\ ~(sidebar.key # "" /\ sidebar.supported) =>
              /\ sidebar.bug_description = ""
              /\ sidebar.attached_file = "None"
              /\ sidebar.vector_store_id = <<>>

\* a project of the mapping is selected with every secret configured, found
\* unsupported, and nothing is fetched
C20_Witness ==
    /\ sidebar.op = "setup_sidebar"
    /\ sidebar.key = "ATSP"
    /\ VectorStoreSecrets \subseteq sidebar.secrets
    /\ ~sidebar.supported
    /\ ~sidebar.fetched
    /\ sidebar.bug_description = ""
    /\ sidebar.attached_file = "None"
    /\ sidebar.vector_store_id = <<>>

\* a str: a sequence of code points
IsStr(v) == \A i \in DOMAIN v : v[i] \in Nat

\* C14: extract_text_from_file never raises to its caller; for every file
\* object and every content it returns a string, and the string is empty
\* whenever extraction failed (a failure is what the function warns about).
C14_ExtractNeverRaises ==
    extraction.op = "extract_text_from_file" =>
        /\ extraction.raised = ""
        /\ IsStr(extraction.value)
        /\ extraction.warned => extraction.value = <<>>

\* an upload typed text/plain whose bytes are not UTF-8: the decode error is
\* answered by the empty string
C14_Witness ==
    /\ extraction.op = "extract_text_from_file"
    /\ extraction.file.kind = "typed"
    /\ extraction.file.type = "text/plain"
    /\ extraction.file.has_getvalue
    /\ extraction.file.content = <<255>>
    /\ extraction.raised = ""
    /\ extraction.warned
    /\ extraction.value = <<>>

\* C16: by the time the handler returns, every path that was recorded in
\* temp_file_paths has been passed to cleanup_temp_files, and its file is
\* gone unless os.unlink raised for it; this holds on every way out.
C16_TempFilesCleaned ==
    handler.pc = "returned" =>
        /\ handler.recorded \subseteq handler.cleaned
        /\ (handler.recorded \cap handler.fs) \subseteq handler.stuck

\* the second file's upload raised after the first file was uploaded: both
\* recorded paths were cleaned in the except branch and the handler left
\* through the early return
C16_Witness ==
    /\ handler.pc = "returned"
    /\ handler.exit = "no_file_ids"
    /\ handler.files = <<"ok", "upload_raises">>
    /\ handler.recorded = {1, 2}
    /\ handler.cleaned = {1, 2}
    /\ handler.fs = {}

\* the first file of the analysis gave no text, or its seek raised
DetectionFailed == handler.content = "" \/ handler.seek = "raises"

\* C17: when the text of the first file is empty or the detection raises,
\* the detected type is 'unknown', the request is still sent with the
\* unknown-category prompt (the custom prompt, or the fallback sentence),
\* and no exception of the detection leaves perform_ai_analysis: only the
\* request or the display can still raise.
C17_DetectionFailureIsUnknown ==
    (handler.pc \in {"display", "finally"} /\ handler.exit = "" /\ DetectionFailed) =>
        /\ handler.detected_log_type = "unknown"
        /\ handler.request_sent
        /\ handler.request_text = IF handler.analysis_prompt # ""
                                  THEN handler.analysis_prompt
                                  ELSE FALLBACK_PROMPT
        /\ handler.raised \in {"", "APIError", "DisplayError"}

\* the seek of the first file raised with a bug description present: the
\* request went out with the fallback sentence and the model answered
C17_Witness ==
    /\ handler.pc = "display"
    /\ handler.seek = "raises"
    /\ handler.content = "logcat "
    /\ handler.bug_description = "login crashes"
    /\ handler.analysis_prompt = ""
    /\ handler.detected_log_type = "unknown"
    /\ handler.request_sent
    /\ handler.request_text = FALLBACK_PROMPT
    /\ handler.raised = ""

\* the positions of the files that were converted and uploaded, in order
RECURSIVE Processed(_, _)
Processed(files, n) ==
    IF n = 0 THEN <<>>
    ELSE IF files[n] = "ok" THEN Append(Processed(files, n - 1), n)
    ELSE Processed(files, n - 1)

\* C18: on a normal return of process_files_for_analysis file_ids and
\* temp_file_paths have the same length, with one entry per file whose
\* conversion succeeded, in input order, files whose conversion gave None
\* being skipped; when a step raised, the function returns ([], []) even
\* when earlier files were uploaded.
C18_ProcessFilesResult ==
    handler.pc = "processed" =>
        /\ handler.process_exit = "normal" =>
              /\ Len(handler.file_ids) = Len(handler.temp_file_paths)
              /\ handler.file_ids = Processed(handler.files, Len(handler.files))
              /\ handler.temp_file_paths = handler.file_ids
              /\ \A k \in DOMAIN handler.files :
                     handler.files[k] \in {"ok", "convert_none"}
        /\ handler.process_exit = "except" =>
              /\ handler.file_ids = <<>>
              /\ handler.temp_file_paths = <<>>
              /\ \E k \in DOMAIN handler.files :
                     handler.files[k] \notin {"ok", "convert_none"}

\* the first file was uploaded, the upload of the second raised, and the
\* function returned two empty lists
C18_Witness ==
    /\ handler.pc = "processed"
    /\ handler.process_exit = "except"
    /\ handler.files = <<"ok", "upload_raises">>
    /\ handler.uploaded = {1}
    /\ handler.file_ids = <<>>
    /\ handler.temp_file_paths = <<>>

adb_indicators_set == { adb_indicators[k] : k \in DOMAIN adb_indicators }
windows_indicators_set == { windows_indicators[k] : k \in DOMAIN windows_indicators }

\* the pairs of a mobile literal and a desktop literal that it holds as a
\* substring, case ignored
OverlapPairs ==
    { p \in adb_indicators_set \X windows_indicators_set :
        OccursIgnoringCase(p[2], p[1]) }

\* the step that tests the mobile literal m adds one to the mobile score
MobileLiteralScores(m) ==
    (pc = "adb_literals" /\ adb_indicators[idx] = m /\ OccursIgnoringCase(m, content))
        => adb_score' = adb_score + 1

\* the step that tests the desktop literal d adds one to the desktop score
\* of a text that holds the mobile literal m
DesktopLiteralScores(m, d) ==
    (pc = "windows_literals" /\ windows_indicators[idx] = d /\ OccursIgnoringCase(m, content))
        => windows_score' = windows_score + 1

\* C21: matching has no word boundary, so a mobile literal that holds a
\* desktop literal scores for both categories: 'ActivityThread' holds
\* 'Thread', 'BackupManagerService' and 'LauncherAppsService' hold 'Service',
\* and in every text with such a mobile literal both literals score; the
\* text 'ActivityThread' alone ends 1 to 1 and is classified 'unknown'.
C21_OverlapScoresBoth ==
    /\ []( /\ { <<"ActivityThread", "Thread">>, <<"BackupManagerService", "Service">>,
                <<"LauncherAppsService", "Service">> } \subseteq OverlapPairs
           /\ (pc \in {"decide", "returned"} /\ content = "ActivityThread") =>
                  (adb_score = 1 /\ windows_score = 1)
           /\ (pc = "returned" /\ content = "ActivityThread") => result = "unknown" )
    /\ [][ \A p \in OverlapPairs :
               MobileLiteralScores(p[1]) /\ DesktopLiteralScores(p[1], p[2]) ]_vars

\* the text 'ActivityThread' alone has been classified: one point each,
\* 'unknown'
C21_Witness ==
    /\ pc = "returned"
    /\ content = "ActivityThread"
    /\ ~content_none
    /\ adb_score = 1
    /\ windows_score = 1
    /\ result = "unknown"
====
